---- MODULE Spec2Model ----
(***************************************************************************)
(* Model of src/lambda_function.py: the Bedrock gateway Lambda.            *)
(*                                                                         *)
(*   validate_file          lines 33-69    file validator                  *)
(*   build_message_content  lines 71-139   message content builder         *)
(*   lambda_handler         lines 141-254  HTTP adapter, invoker and       *)
(*                                         response normaliser             *)
(*                                                                         *)
(* Representation.                                                         *)
(*   - A request file is a record [type, media_type, data].  type and      *)
(*     media_type are the strings of the request; None stands for Python's *)
(*     None (dict.get of a missing key).  data describes the base64 text   *)
(*     by what b64decode reads of it: whether it is an ASCII string, the   *)
(*     number of base64-alphabet characters, the number of trailing '='    *)
(*     and the number of characters outside the alphabet.                  *)
(*   - A JSON value of the remote response is a tagged record: JNull,      *)
(*     JBool(b), JNum(n), JStr(s), JList(l), JDict(d).  A string is the    *)
(*     sequence of its characters, a dict is a function from its keys.     *)
(*   - An error message is the sequence of the parts of its f-string.      *)
(***************************************************************************)
EXTENDS Integers, Sequences, FiniteSets, TLC

VARIABLES
    MODEL_ID,          \* os.environ BEDROCK_MODEL_ID, read at cold start (line 9)
    GUARDRAIL_ID,      \* os.environ GUARDRAIL_ID (line 10)
    event,             \* the API Gateway event handed to lambda_handler
    pc,                \* position of lambda_handler
    prompt,            \* local `prompt` (line 152)
    files,             \* local `files` (line 153)
    content,           \* local `content` of build_message_content, then of the handler
    image_count,       \* local of build_message_content (line 91)
    document_count,    \* local of build_message_content (line 92)
    idx,               \* number of files the for loop of line 94 has taken
    validation,        \* argument and result of the last validate_file call
    validated,         \* history: number of validate_file calls
    invoked,           \* history: the invoke_model calls made, as their parameters
    result,            \* local `result` (line 221)
    assistantContent,  \* local `assistantContent` (line 224)
    shape,             \* history: the branch of lines 225-234 that was taken
    response,          \* what lambda_handler returned
    cause              \* history: why the invocation ended

vars == <<MODEL_ID, GUARDRAIL_ID, event, pc, prompt, files, content,
          image_count, document_count, idx, validation, validated, invoked,
          result, assistantContent, shape, response, cause>>

(***************************************************************************)
(* Python values                                                           *)
(***************************************************************************)
None == "<None>"

Rep(x, n) == [i \in 1..n |-> x]

(***************************************************************************)
(* Program constants                                                       *)
(***************************************************************************)
IMAGE_MAX_SIZE == 3932160

DOCUMENT_MAX_SIZE == 4718592

MAX_IMAGES == 20

MAX_DOCUMENTS == 5

MAX_TOKENS == 4000

SUPPORTED_IMAGE_TYPES ==
    [mt \in {"image/png", "image/jpeg", "image/gif", "image/webp"} |->
        [max_size |-> IMAGE_MAX_SIZE]]

SUPPORTED_DOCUMENT_TYPES ==
    [mt \in {"application/pdf", "text/csv", "application/msword",
             "application/vnd.openxmlformats-officedocument.wordprocessingml.document",
             "application/vnd.ms-excel",
             "application/vnd.openxmlformats-officedocument.spreadsheetml.sheet",
             "text/html", "text/plain", "text/markdown"} |->
        [max_size |-> DOCUMENT_MAX_SIZE]]

DEFAULT_TEXT == "<please analyze the following files:>"

MSG_INVALID_BASE64 == <<"invalid base64 data">>

MSG_IMAGE_TOO_LARGE == <<"image size exceeds the limit (max 3.75MB)">>

MSG_DOCUMENT_TOO_LARGE == <<"document size exceeds the limit (max 4.5MB)">>

MSG_TOO_MANY_IMAGES == <<"at most 20 images">>

MSG_TOO_MANY_DOCUMENTS == <<"at most 5 documents">>

MSG_PROMPT_OR_FILES == <<"a prompt or files are required">>

MSG_CONFIG == <<"set BEDROCK_MODEL_ID to an inference profile ARN">>

MSG_BEDROCK == <<"the Bedrock API call failed">>

MsgUnsupportedImage(media_type) == <<"unsupported image format: ", media_type>>

MsgUnsupportedDocument(media_type) == <<"unsupported document format: ", media_type>>

MsgInvalidFileType(file_type) == <<"invalid file type: ", file_type>>

(***************************************************************************)
(* base64.b64decode(data) of line 48, in its default non-validating mode:  *)
(* a value that is not an ASCII string raises; characters outside the      *)
(* alphabet are discarded; the alphabet characters are read in groups of   *)
(* four; a last group of one character raises, a last group of two needs   *)
(* two '=' and a last group of three needs one.                            *)
(***************************************************************************)
b64decode_raises(data) ==
    \/ ~data.ascii
    \/ data.chars % 4 = 1
    \/ data.chars % 4 = 2 /\ data.pads < 2
    \/ data.chars % 4 = 3 /\ data.pads < 1

b64decode_len(data) ==
    3 * (data.chars \div 4)
        + (CASE data.chars % 4 = 2 -> 1
             [] data.chars % 4 = 3 -> 2
             [] OTHER -> 0)

\* faulty variant: every file is accepted
validate_file_Lenient(file_data) == <<TRUE, <<>> >>

\* faulty variant: a payload of exactly the ceiling is rejected
validate_file_Strict(file_data) ==
    LET file_type == file_data.type
        media_type == file_data.media_type
        data == file_data.data
        file_size == b64decode_len(data)
    IN  IF b64decode_raises(data) THEN <<FALSE, MSG_INVALID_BASE64>>
        ELSE IF file_type = "image" THEN
            IF media_type \notin DOMAIN SUPPORTED_IMAGE_TYPES
                THEN <<FALSE, MsgUnsupportedImage(media_type)>>
            ELSE IF file_size >= SUPPORTED_IMAGE_TYPES[media_type].max_size
                THEN <<FALSE, MSG_IMAGE_TOO_LARGE>>
            ELSE <<TRUE, <<>> >>
        ELSE IF file_type = "document" THEN
            IF media_type \notin DOMAIN SUPPORTED_DOCUMENT_TYPES
                THEN <<FALSE, MsgUnsupportedDocument(media_type)>>
            ELSE IF file_size >= SUPPORTED_DOCUMENT_TYPES[media_type].max_size
                THEN <<FALSE, MSG_DOCUMENT_TOO_LARGE>>
            ELSE <<TRUE, <<>> >>
        ELSE <<FALSE, MsgInvalidFileType(file_type)>>

(***************************************************************************)
(* validate_file (lines 33-69): the pair (is_valid, error_msg).            *)
(***************************************************************************)
validate_file(file_data) ==
    LET file_type == file_data.type
        media_type == file_data.media_type
        data == file_data.data
        file_size == b64decode_len(data)
    IN  IF b64decode_raises(data) THEN <<FALSE, MSG_INVALID_BASE64>>
        ELSE IF file_type = "image" THEN
            IF media_type \notin DOMAIN SUPPORTED_IMAGE_TYPES
                THEN <<FALSE, MsgUnsupportedImage(media_type)>>
            ELSE IF file_size > SUPPORTED_IMAGE_TYPES[media_type].max_size
                THEN <<FALSE, MSG_IMAGE_TOO_LARGE>>
            ELSE <<TRUE, <<>> >>
        ELSE IF file_type = "document" THEN
            IF media_type \notin DOMAIN SUPPORTED_DOCUMENT_TYPES
                THEN <<FALSE, MsgUnsupportedDocument(media_type)>>
            ELSE IF file_size > SUPPORTED_DOCUMENT_TYPES[media_type].max_size
                THEN <<FALSE, MSG_DOCUMENT_TOO_LARGE>>
            ELSE <<TRUE, <<>> >>
        ELSE <<FALSE, MsgInvalidFileType(file_type)>>

(***************************************************************************)
(* build_message_content (lines 71-139), one definition per part.          *)
(***************************************************************************)
TextBlock(text) == [type |-> "text", text |-> text]

\* lines 113-130: the block appended for a validated file
FileBlock(file_data) ==
    [type |-> file_data.type,
     source |-> [type |-> "base64",
                 media_type |-> file_data.media_type,
                 data |-> file_data.data]]

\* faulty variant: the limit is reached one image early
ImageLimitExceeded_Early(count) == count >= MAX_IMAGES

\* line 100
ImageLimitExceeded(count) == count > MAX_IMAGES

\* faulty variant: the document limit is not enforced
DocumentLimitExceeded_Never(count) == FALSE

\* line 104
DocumentLimitExceeded(count) == count > MAX_DOCUMENTS

\* lines 83-87: content after the prompt was looked at
InitialContent(p) == IF p /= "" THEN <<TextBlock(p)>> ELSE <<>>

\* faulty variant: the default text is appended, not inserted at index 0
EnsureText_Appended(c) ==
    IF ~(\E i \in 1..Len(c) : c[i].type = "text")
        THEN Append(c, TextBlock(DEFAULT_TEXT))
        ELSE c

\* lines 133-137: a text block is inserted at index 0 when there is none
EnsureText(c) ==
    IF ~(\E i \in 1..Len(c) : c[i].type = "text")
        THEN <<TextBlock(DEFAULT_TEXT)>> \o c
        ELSE c

(***************************************************************************)
(* lambda_handler (lines 141-254): checks and responses.                   *)
(***************************************************************************)
\* faulty variant: a request is rejected when either of the two is missing
MissingInput_Either(p, fs) == p = "" \/ fs = <<>>

\* line 156: not prompt and not files
MissingInput(p, fs) == p = "" /\ fs = <<>>

\* line 163; a model identifier is the sequence of its parts
IsValidModelReference(id) ==
    /\ Len(id) > 0 /\ id[1] = "arn:aws"
    /\ \E i \in 1..Len(id) : id[i] = "inference-profile"

\* lines 157-160 and 173-176
BadRequest(msg) == [statusCode |-> 400, body |-> [error |-> msg]]

\* lines 164-167
ConfigError == [statusCode |-> 500, body |-> [error |-> MSG_CONFIG]]

\* lines 210-216
InvokeError(details) ==
    [statusCode |-> 500, body |-> [error |-> MSG_BEDROCK, details |-> details]]

\* lines 251-254
Success(text) == [statusCode |-> 200, body |-> [response |-> text]]

\* lines 179-203: the parameters of the invoke_model call
InvokeParams(c) ==
    [modelId |-> MODEL_ID,
     contentType |-> "application/json",
     accept |-> "application/json",
     body |-> [messages |-> <<[role |-> "user", content |-> c]>>,
               max_tokens |-> MAX_TOKENS,
               anthropic_version |-> "bedrock-2023-05-31"],
     guardrailIdentifier |-> GUARDRAIL_ID,
     guardrailVersion |-> IF GUARDRAIL_ID /= None THEN "DRAFT" ELSE None]

(***************************************************************************)
(* JSON values of the remote response, and the Python operations the       *)
(* normaliser (lines 224-244) applies to them.  RAISE is the outcome of an *)
(* operation that raises (AttributeError, TypeError, KeyError,             *)
(* IndexError); it propagates through every operation.                     *)
(***************************************************************************)
JNull == [t |-> "null"]

JBool(b) == [t |-> "bool", v |-> b]

JNum(n) == [t |-> "num", v |-> n]

JStr(s) == [t |-> "str", v |-> s]

JList(l) == [t |-> "list", v |-> l]

JDict(d) == [t |-> "dict", v |-> d]

RAISE == [t |-> "raise"]

raised(v) == v.t = "raise"

\* a == b for a string b
equals_str(a, b) == a.t = "str" /\ a.v = b.v

EmptyDict == JDict([k \in {} |-> JNull])

\* bool(v)
truthy(v) ==
    CASE v.t = "null" -> FALSE
      [] v.t = "bool" -> v.v
      [] v.t = "num" -> v.v /= 0
      [] v.t = "str" -> Len(v.v) > 0
      [] v.t = "list" -> Len(v.v) > 0
      [] v.t = "dict" -> DOMAIN v.v /= {}
      [] OTHER -> FALSE

\* d.get(key, default): only a dict has the method
get(d, key, default) ==
    IF d.t /= "dict" THEN RAISE
    ELSE IF key \in DOMAIN d.v THEN d.v[key]
    ELSE default

\* v[0]
first(v) ==
    CASE v.t = "list" -> IF Len(v.v) = 0 THEN RAISE ELSE v.v[1]
      [] v.t = "str" -> IF Len(v.v) = 0 THEN RAISE ELSE JStr(<<v.v[1]>>)
      [] OTHER -> RAISE

\* v[-1]
last(v) ==
    CASE v.t = "list" -> IF Len(v.v) = 0 THEN RAISE ELSE v.v[Len(v.v)]
      [] v.t = "str" -> IF Len(v.v) = 0 THEN RAISE ELSE JStr(<<v.v[Len(v.v)]>>)
      [] OTHER -> RAISE

\* the items `for item in v` yields; a dict yields its keys, which are strings
iterate(v) ==
    CASE v.t = "list" -> v
      [] v.t = "str" -> JList([i \in 1..Len(v.v) |-> JStr(<<v.v[i]>>)])
      [] v.t = "dict" -> JList(Rep(JStr(<<"k">>), Cardinality(DOMAIN v.v)))
      [] OTHER -> RAISE

TEXT == JStr(<<"t", "e", "x", "t">>)

\* lines 239-243: what one item of the content list adds to text_parts
text_parts_of(item) ==
    IF item.t /= "dict" THEN <<>>
    ELSE IF equals_str(get(item, "type", JNull), TEXT)
        THEN <<get(item, "text", JStr(<<>>))>>
    ELSE IF truthy(get(item, "text", JNull)) THEN <<get(item, "text", JNull)>>
    ELSE <<>>

RECURSIVE text_parts(_)
\* lines 237-243: text_parts after the loop over the items
text_parts(items) ==
    IF Len(items) = 0 THEN <<>>
    ELSE text_parts_of(Head(items)) \o text_parts(Tail(items))

RECURSIVE join(_)
\* " ".join(parts): raises unless every part is a string
join(parts) ==
    IF Len(parts) = 0 THEN JStr(<<>>)
    ELSE IF Head(parts).t /= "str" THEN RAISE
    ELSE IF Len(parts) = 1 THEN Head(parts)
    ELSE LET rest == join(Tail(parts))
         IN  IF raised(rest) THEN RAISE
             ELSE JStr(Head(parts).v \o <<" ">> \o rest.v)

\* faulty variant: completion is probed before completions
matched_shape_Reordered(res) ==
    IF truthy(get(res, "messages", JNull)) THEN "messages"
    ELSE IF truthy(get(res, "completion", JNull)) THEN "completion"
    ELSE IF truthy(get(res, "completions", JNull)) THEN "completions"
    ELSE IF truthy(get(res, "modelOutputs", JNull)) THEN "modelOutputs"
    ELSE IF truthy(get(res, "content", JNull)) THEN "content"
    ELSE "none"

\* the branch of the if/elif chain of lines 225-234 that is taken
matched_shape(res) ==
    IF truthy(get(res, "messages", JNull)) THEN "messages"
    ELSE IF truthy(get(res, "completions", JNull)) THEN "completions"
    ELSE IF truthy(get(res, "completion", JNull)) THEN "completion"
    ELSE IF truthy(get(res, "modelOutputs", JNull)) THEN "modelOutputs"
    ELSE IF truthy(get(res, "content", JNull)) THEN "content"
    ELSE "none"

\* line 226
from_messages(res) ==
    LET m == last(res.v["messages"])
    IN  IF raised(m) THEN RAISE ELSE get(m, "content", JNull)

\* lines 228-229
from_completions(res) ==
    LET firstCompletion == first(res.v["completions"])
        message == IF raised(firstCompletion) THEN RAISE
                   ELSE get(firstCompletion, "message", EmptyDict)
        a == IF raised(message) THEN RAISE ELSE get(message, "content", JNull)
        data == get(firstCompletion, "data", EmptyDict)
        b == IF raised(data) THEN RAISE ELSE get(data, "content", JNull)
    IN  IF raised(a) THEN RAISE
        ELSE IF truthy(a) THEN a
        ELSE b

\* line 231
from_completion(res) == res.v["completion"]

\* line 233
from_modelOutputs(res) ==
    LET o == first(res.v["modelOutputs"])
    IN  IF raised(o) THEN RAISE ELSE get(o, "content", JNull)

\* lines 236-244
from_content(res) ==
    LET items == iterate(res.v["content"])
    IN  IF raised(items) THEN RAISE
        ELSE IF Len(text_parts(items.v)) > 0 THEN join(text_parts(items.v))
        ELSE JNull

\* lines 224-244: the value of assistantContent, or RAISE
extract_text(res) ==
    IF res.t /= "dict" THEN RAISE
    ELSE CASE matched_shape(res) = "messages" -> from_messages(res)
           [] matched_shape(res) = "completions" -> from_completions(res)
           [] matched_shape(res) = "completion" -> from_completion(res)
           [] matched_shape(res) = "modelOutputs" -> from_modelOutputs(res)
           [] matched_shape(res) = "content" -> from_content(res)
           [] OTHER -> JNull

(***************************************************************************)
(* The steps of lambda_handler.  A step that returns a response or lets an *)
(* exception escape ends the invocation.                                   *)
(***************************************************************************)
Returns(r, why) ==
    /\ response' = <<r>>
    /\ cause' = why
    /\ pc' = "done"

Continues(to) ==
    /\ pc' = to
    /\ UNCHANGED <<response, cause>>

\* lines 151-153, and lines 207-216 when json.loads raises
Parse ==
    /\ pc = "parse"
    /\ IF event.body.t = "malformed"
       THEN /\ Returns(InvokeError(<<"json.loads">>), "parse")
            /\ UNCHANGED <<prompt, files>>
       ELSE /\ prompt' = IF "prompt" \in event.body.keys THEN event.body.prompt ELSE ""
            /\ files' = IF "files" \in event.body.keys THEN event.body.files ELSE <<>>
            /\ Continues("check_input")
    /\ UNCHANGED <<shape, MODEL_ID, GUARDRAIL_ID, event, content, image_count,
                   document_count, idx, validation, validated, invoked, result,
                   assistantContent>>

\* lines 156-160
CheckInput ==
    /\ pc = "check_input"
    /\ IF MissingInput(prompt, files)
       THEN Returns(BadRequest(MSG_PROMPT_OR_FILES), "missing_input")
       ELSE Continues("check_config")
    /\ UNCHANGED <<shape, MODEL_ID, GUARDRAIL_ID, event, prompt, files, content,
                   image_count, document_count, idx, validation, validated,
                   invoked, result, assistantContent>>

\* lines 163-167
CheckConfig ==
    /\ pc = "check_config"
    /\ IF ~IsValidModelReference(MODEL_ID)
       THEN Returns(ConfigError, "configuration")
       ELSE Continues("build")
    /\ UNCHANGED <<shape, MODEL_ID, GUARDRAIL_ID, event, prompt, files, content,
                   image_count, document_count, idx, validation, validated,
                   invoked, result, assistantContent>>

\* lines 80-92: build_message_content up to the for loop
BuildStart ==
    /\ pc = "build"
    /\ content' = InitialContent(prompt)
    /\ image_count' = 0
    /\ document_count' = 0
    /\ idx' = 0
    /\ Continues("loop")
    /\ UNCHANGED <<shape, MODEL_ID, GUARDRAIL_ID, event, prompt, files, validation,
                   validated, invoked, result, assistantContent>>

\* lines 94-130: one iteration of the for loop; a ValueError it raises is
\* caught at line 172 and answered at lines 173-176
BuildFile ==
    /\ pc = "loop"
    /\ idx < Len(files)
    /\ LET file_data == files[idx + 1]
           file_type == file_data.type
           ic == IF file_type = "image" THEN image_count + 1 ELSE image_count
           dc == IF file_type = "document" THEN document_count + 1 ELSE document_count
           v == validate_file(file_data)
       IN  /\ image_count' = ic
           /\ document_count' = dc
           /\ IF file_type = "image" /\ ImageLimitExceeded(ic)
              THEN /\ Returns(BadRequest(MSG_TOO_MANY_IMAGES), "validation")
                   /\ UNCHANGED <<content, idx, validation, validated>>
              ELSE IF file_type = "document" /\ DocumentLimitExceeded(dc)
              THEN /\ Returns(BadRequest(MSG_TOO_MANY_DOCUMENTS), "validation")
                   /\ UNCHANGED <<content, idx, validation, validated>>
              ELSE /\ validation' = <<[file |-> file_data, result |-> v]>>
                   /\ validated' = validated + 1
                   /\ IF ~v[1]
                      THEN /\ Returns(BadRequest(v[2]), "validation")
                           /\ UNCHANGED <<content, idx>>
                      ELSE /\ content' = Append(content, FileBlock(file_data))
                           /\ idx' = idx + 1
                           /\ UNCHANGED <<pc, response, cause>>
    /\ UNCHANGED <<shape, MODEL_ID, GUARDRAIL_ID, event, prompt, files, invoked, result,
                   assistantContent>>

\* lines 133-139: the loop is over; the content is completed and returned
BuildFinish ==
    /\ pc = "loop"
    /\ idx = Len(files)
    /\ content' = EnsureText(content)
    /\ Continues("invoke")
    /\ UNCHANGED <<shape, MODEL_ID, GUARDRAIL_ID, event, prompt, files, image_count,
                   document_count, idx, validation, validated, invoked, result,
                   assistantContent>>

\* lines 179-221: the remote call; it raises (lines 207-216) or returns a
\* body that parses to reply
Invoke(replies) ==
    /\ pc = "invoke"
    /\ invoked' = Append(invoked, InvokeParams(content))
    /\ \/ /\ Returns(InvokeError(<<"invoke_model">>), "invocation")
          /\ UNCHANGED result
       \/ \E reply \in replies :
          /\ result' = reply
          /\ Continues("extract")
    /\ UNCHANGED <<shape, MODEL_ID, GUARDRAIL_ID, event, prompt, files, content,
                   image_count, document_count, idx, validation, validated,
                   assistantContent>>

\* lines 224-244; an exception raised here is caught nowhere
Extract ==
    /\ pc = "extract"
    /\ shape' = IF result.t = "dict" THEN matched_shape(result) ELSE ""
    /\ IF raised(extract_text(result))
       THEN /\ pc' = "raised"
            /\ cause' = "unhandled"
            /\ UNCHANGED <<assistantContent, response>>
       ELSE /\ assistantContent' = extract_text(result)
            /\ Continues("return")
    /\ UNCHANGED <<MODEL_ID, GUARDRAIL_ID, event, prompt, files, content,
                   image_count, document_count, idx, validation, validated,
                   invoked, result>>

\* lines 247-254
Return ==
    /\ pc = "return"
    /\ Returns(Success(assistantContent), "success")
    /\ UNCHANGED <<shape, MODEL_ID, GUARDRAIL_ID, event, prompt, files, content,
                   image_count, document_count, idx, validation, validated,
                   invoked, result, assistantContent>>

(***************************************************************************)
(* Bounds of the inputs                                                    *)
(***************************************************************************)
\* a run of equal files in a request holds 0..MaxShort, MAX_DOCUMENTS or
\* MAX_IMAGES files
MaxShort == 1

\* longest messages / content list of a remote response
MaxItems == 2

\* most trailing '=' of a base64 text
MaxPads == 2

\* base64 texts are taken up to MaxSlack characters past each size of interest
MaxSlack == 3

SeqUpTo(S, n) == UNION {[1..k -> S] : k \in 0..n}

(***************************************************************************)
(* Configurations: (BEDROCK_MODEL_ID, GUARDRAIL_ID).  The first model      *)
(* identifier is the default of line 9.                                    *)
(***************************************************************************)
DefaultModelId == <<"apac.anthropic.claude-sonnet-4-20250514-v1:0">>

ProfileArn == <<"arn:aws", ":bedrock:ap-northeast-1:1:", "inference-profile", "/p">>

ValidConfigs == {<<ProfileArn, None>>, <<ProfileArn, "gr-1">>}

InvalidConfigs ==
    {<<DefaultModelId, None>>,
     <<<<"arn:aws", ":bedrock:ap-northeast-1::", "foundation-model", "/m">>, "gr-1">>,
     <<<<"apac.", "inference-profile", "/p">>, None>>}

Configs == ValidConfigs \cup InvalidConfigs

(***************************************************************************)
(* Request files                                                           *)
(***************************************************************************)
Data(chars, pads) == [ascii |-> TRUE, chars |-> chars, pads |-> pads, junk |-> 0]

File(type, media_type, data) ==
    [type |-> type, media_type |-> media_type, data |-> data]

GoodImage == File("image", "image/png", Data(4, 0))

GoodDocument == File("document", "application/pdf", Data(6, 2))

BadBase64Image == File("image", "image/png", Data(5, 0))

UnsupportedDocument == File("document", "application/zip", Data(4, 0))

UnknownKind == File("video", "video/mp4", Data(4, 0))

BuildFiles == {GoodImage, GoodDocument, BadBase64Image, UnsupportedDocument, UnknownKind}

RunLens == (0..MaxShort) \cup {MAX_DOCUMENTS, MAX_IMAGES}

\* file lists of up to three runs of equal files
FileLists ==
    {Rep(f1, n1) \o Rep(f2, n2) \o Rep(f3, n3) :
        f1 \in BuildFiles, f2 \in BuildFiles, f3 \in BuildFiles,
        n1 \in RunLens, n2 \in RunLens, n3 \in RunLens}

\* the number of base64 characters that decode to `bytes` bytes (a multiple of 3)
CharsFor(bytes) == 4 * (bytes \div 3)

SizesOfInterest ==
    {0, CharsFor(IMAGE_MAX_SIZE) - 4, CharsFor(IMAGE_MAX_SIZE),
     CharsFor(DOCUMENT_MAX_SIZE) - 4, CharsFor(DOCUMENT_MAX_SIZE)}

ValidateData ==
    {[ascii |-> a, chars |-> c + d, pads |-> p, junk |-> j] :
        a \in BOOLEAN, c \in SizesOfInterest, d \in 0..MaxSlack,
        p \in 0..MaxPads, j \in {0, 1}}

ValidateMediaTypes ==
    DOMAIN SUPPORTED_IMAGE_TYPES \cup DOMAIN SUPPORTED_DOCUMENT_TYPES
        \cup {"", "image/bmp", "application/zip"}

ValidateFiles ==
    {File(t, m, d) : t \in {"image", "document", "video", None},
                     m \in ValidateMediaTypes, d \in ValidateData}

(***************************************************************************)
(* Events                                                                  *)
(***************************************************************************)
Body(keys, p, fs) == [t |-> "json", keys |-> keys, prompt |-> p, files |-> fs]

Event(body) == [body |-> body]

MalformedEvent == Event([t |-> "malformed"])

\* no body key: event.get('body', '{}') parses to the empty object
EmptyEvent == Event(Body({}, "", <<>>))

BuildEvents ==
    {Event(Body({"prompt", "files"}, p, fs)) : p \in {"", "hello"}, fs \in FileLists}
        \cup {MalformedEvent, EmptyEvent}

ValidateEvents ==
    {Event(Body({"files"}, "", <<f>>)) : f \in ValidateFiles}
        \cup {MalformedEvent, EmptyEvent}

NormalizeEvents ==
    {Event(Body({"prompt"}, "hello", <<>>)),
     Event(Body({"files"}, "", <<GoodImage>>)),
     Event(Body({"prompt", "files"}, "hello", <<BadBase64Image>>)),
     Event(Body({"prompt", "files"}, "", <<>>)),
     MalformedEvent, EmptyEvent}

(***************************************************************************)
(* Remote responses                                                        *)
(***************************************************************************)
ABSENT == [t |-> "absent"]

\* the JSON object with the fields of f that are not ABSENT
Obj(f) == JDict([k \in {x \in DOMAIN f : f[x].t /= "absent"} |-> f[k]])

S(c) == JStr(<<c>>)

TextItem(text) == Obj([type |-> TEXT, text |-> text])

IMAGE == JStr(<<"i", "m", "g">>)

ContentItems ==
    {TextItem(JStr(<<"h", "i">>)), TextItem(S("b")), TextItem(JStr(<<>>)),
     TextItem(ABSENT), TextItem(JNull),
     Obj([type |-> IMAGE, text |-> ABSENT]), Obj([type |-> IMAGE, text |-> S("c")]),
     Obj([type |-> ABSENT, text |-> S("d")]), Obj([type |-> ABSENT, text |-> JStr(<<>>)]),
     Obj([type |-> ABSENT, text |-> JNum(7)]),
     S("x")}

ContentValues ==
    {JList(l) : l \in SeqUpTo(ContentItems, MaxItems)}
        \cup {JStr(<<"r", "a", "w">>), TextItem(S("t")), JNum(3), JBool(TRUE), JNull}

MessageItems ==
    {Obj([role |-> S("a"), content |-> S("m")]),
     Obj([role |-> S("a"), content |-> JList(<<TextItem(S("n"))>>)]),
     Obj([role |-> S("a"), content |-> ABSENT]),
     S("x")}

MessagesValues ==
    {JList(l) : l \in SeqUpTo(MessageItems, MaxItems)}
        \cup {S("s"), Obj([role |-> S("a")]), JNum(1), JNull}

ContentHolders ==
    {ABSENT, JNull, Obj([content |-> ABSENT]), Obj([content |-> JStr(<<>>)]),
     Obj([content |-> S("c")]), Obj([content |-> S("d")])}

CompletionItems ==
    {Obj([message |-> m, data |-> d]) : m \in ContentHolders, d \in ContentHolders}
        \cup {S("x")}

CompletionsValues ==
    {JList(<<>>), S("s"), JNull}
        \cup {JList(<<c>>) : c \in CompletionItems}
        \cup {JList(<<c, Obj([message |-> Obj([content |-> S("z")])])>>) :
                c \in CompletionItems}

CompletionValues ==
    {JStr(<<>>), S("p"), JNum(0), JNum(5), JNull, JBool(FALSE), JList(<<S("a")>>)}

ModelOutputsValues ==
    {JList(<<>>), JNull, JNum(2),
     JList(<<Obj([content |-> S("o")])>>), JList(<<Obj([content |-> ABSENT])>>),
     JList(<<Obj([content |-> S("o")]), Obj([content |-> S("q")])>>),
     JList(<<JNull>>)}

Reply(messages, completions, completion, modelOutputs, cont) ==
    Obj([id |-> S("r"), messages |-> messages, completions |-> completions,
         completion |-> completion, modelOutputs |-> modelOutputs, content |-> cont])

\* responses with one of the five fields, over all the values of that field
OneShapeReplies ==
    {Reply(v, ABSENT, ABSENT, ABSENT, ABSENT) : v \in MessagesValues}
        \cup {Reply(ABSENT, v, ABSENT, ABSENT, ABSENT) : v \in CompletionsValues}
        \cup {Reply(ABSENT, ABSENT, v, ABSENT, ABSENT) : v \in CompletionValues}
        \cup {Reply(ABSENT, ABSENT, ABSENT, v, ABSENT) : v \in ModelOutputsValues}
        \cup {Reply(ABSENT, ABSENT, ABSENT, ABSENT, v) : v \in ContentValues}

\* responses with any of the five fields, each absent, empty or filled
ManyShapeReplies ==
    {Reply(m, cs, c, o, ct) :
        m \in {ABSENT, JList(<<>>), JList(<<Obj([content |-> S("m")])>>)},
        cs \in {ABSENT, JList(<<>>),
                JList(<<Obj([message |-> Obj([content |-> S("c")])])>>)},
        c \in {ABSENT, JStr(<<>>), S("p")},
        o \in {ABSENT, JList(<<>>), JList(<<Obj([content |-> S("o")])>>)},
        ct \in {ABSENT, JList(<<>>), JList(<<TextItem(S("t"))>>)}}

\* responses that are JSON but no object
OtherReplies == {JList(<<>>), S("s"), JNull, JNum(1)}

NormalizeReplies == OneShapeReplies \cup ManyShapeReplies \cup OtherReplies

HandlerReplies ==
    {Reply(ABSENT, ABSENT, ABSENT, ABSENT, JList(<<TextItem(JStr(<<"h", "i">>))>>)),
     Reply(ABSENT, ABSENT, ABSENT, ABSENT, ABSENT),
     Reply(JList(<<S("x")>>), ABSENT, ABSENT, ABSENT, ABSENT)}

(***************************************************************************)
(* Specifications                                                          *)
(***************************************************************************)
Start(events, configs) ==
    /\ event \in events
    /\ \E c \in configs : MODEL_ID = c[1] /\ GUARDRAIL_ID = c[2]
    /\ pc = "parse"
    /\ prompt = ""
    /\ files = <<>>
    /\ content = <<>>
    /\ image_count = 0
    /\ document_count = 0
    /\ idx = 0
    /\ validation = <<>>
    /\ validated = 0
    /\ invoked = <<>>
    /\ result = JNull
    /\ assistantContent = JNull
    /\ shape = ""
    /\ response = <<>>
    /\ cause = ""

Init == Start(BuildEvents, Configs)

Next ==
    \/ Parse
    \/ CheckInput
    \/ CheckConfig
    \/ BuildStart
    \/ BuildFile
    \/ BuildFinish
    \/ Invoke(HandlerReplies)
    \/ Extract
    \/ Return

\* requests with file lists of every shape
Spec == Init /\ [][Next]_vars

InitValidate == Start(ValidateEvents, {<<ProfileArn, None>>})

\* requests with one file, over every kind, media type and size of file
SpecValidate == InitValidate /\ [][Next]_vars

InitNormalize == Start(NormalizeEvents, Configs)

NextNormalize ==
    \/ Parse
    \/ CheckInput
    \/ CheckConfig
    \/ BuildStart
    \/ BuildFile
    \/ BuildFinish
    \/ Invoke(NormalizeReplies)
    \/ Extract
    \/ Return

\* remote responses of every shape
SpecNormalize == InitNormalize /\ [][NextNormalize]_vars

(***************************************************************************)
(* Vocabulary of the properties                                            *)
(***************************************************************************)
\* the invocation is over: a response was returned or an exception escaped
Terminal == pc \in {"done", "raised"}

\* build_message_content returned its content to the handler
BuildSucceeded ==
    \/ pc \in {"invoke", "extract", "return", "raised"}
    \/ pc = "done" /\ cause \in {"invocation", "success"}

\* build_message_content raised
BuildFailed == pc = "done" /\ cause = "validation"

\* the number of files of the given type among the first n files
NumOf(fs, type, n) == Cardinality({i \in 1..n : fs[i].type = type})

ImageTypes == {"image/png", "image/jpeg", "image/gif", "image/webp"}

DocumentTypes ==
    {"application/pdf", "text/csv", "application/msword",
     "application/vnd.openxmlformats-officedocument.wordprocessingml.document",
     "application/vnd.ms-excel",
     "application/vnd.openxmlformats-officedocument.spreadsheetml.sheet",
     "text/html", "text/plain", "text/markdown"}

\* the bytes a base64 text of the given shape stands for
DecodedBytes(d) == (d.chars * 6) \div 8

\* the text is an ASCII string whose last group of characters is padded out
Decodes(d) ==
    /\ d.ascii
    /\ d.chars % 4 /= 1
    /\ d.chars % 4 = 0 \/ (d.chars % 4) + d.pads >= 4

\* the attachment is valid by itself
Valid(f) ==
    /\ Decodes(f.data)
    /\ \/ /\ f.type = "image"
          /\ f.media_type \in ImageTypes
          /\ DecodedBytes(f.data) <= 3932160
       \/ /\ f.type = "document"
          /\ f.media_type \in DocumentTypes
          /\ DecodedBytes(f.data) <= 4718592

\* file i is the 21st image or the 6th document
OverLimit(fs, i) ==
    \/ fs[i].type = "image" /\ NumOf(fs, "image", i) > 20
    \/ fs[i].type = "document" /\ NumOf(fs, "document", i) > 5

Offending(fs, i) == OverLimit(fs, i) \/ ~Valid(fs[i])

\* the error file i is answerable for: the ceiling's when it is over a
\* ceiling, else its own validation error
ErrorOf(fs, i) ==
    IF fs[i].type = "image" /\ OverLimit(fs, i) THEN MSG_TOO_MANY_IMAGES
    ELSE IF fs[i].type = "document" /\ OverLimit(fs, i) THEN MSG_TOO_MANY_DOCUMENTS
    ELSE validate_file(fs[i])[2]

\* the response is an error response holding nothing but the message
OnlyError(msg) ==
    /\ Len(response) = 1
    /\ DOMAIN response[1].body = {"error"}
    /\ response[1].body.error = msg

(***************************************************************************)
(* C1: whenever build_message_content succeeds, the content holds exactly  *)
(* one text block, at position 0 (the prompt when it is non-empty, else    *)
(* the default text), followed by one image/document block per attachment, *)
(* in input order, with the attachment's kind, media type and data.        *)
(***************************************************************************)
C1_ContentShape ==
    BuildSucceeded =>
        /\ Len(content) = Len(files) + 1
        /\ content[1].type = "text"
        /\ content[1].text = (IF prompt /= "" THEN prompt ELSE DEFAULT_TEXT)
        /\ Cardinality({i \in 1..Len(content) : content[i].type = "text"}) = 1
        /\ \A i \in 1..Len(files) :
            /\ content[i + 1].type \in {"image", "document"}
            /\ content[i + 1].type = files[i].type
            /\ content[i + 1].source.type = "base64"
            /\ content[i + 1].source.media_type = files[i].media_type
            /\ content[i + 1].source.data = files[i].data

\* an attachment-only request of images and documents was built
C1_Witness ==
    /\ BuildSucceeded
    /\ prompt = ""
    /\ \E i, j \in 1..Len(files) :
        i < j /\ files[i].type = "document" /\ files[j].type = "image"

\* a request with a prompt and no attachment was built
C1_WitnessPromptOnly == BuildSucceeded /\ prompt = "hello" /\ files = <<>>

(***************************************************************************)
(* C2: when every attachment is valid by itself, the build succeeds with   *)
(* at most 20 images and at most 5 documents, and it fails with the        *)
(* too-many error of the kind concerned, returning no content, when the    *)
(* list holds a 21st image or a 6th document, wherever it stands.          *)
(***************************************************************************)
C2_CountCeilings ==
    (\A i \in 1..Len(files) : Valid(files[i])) =>
        /\ BuildSucceeded =>
            /\ NumOf(files, "image", Len(files)) <= 20
            /\ NumOf(files, "document", Len(files)) <= 5
        /\ BuildFailed =>
            /\ \E i \in 1..Len(files) : OverLimit(files, i)
            /\ LET k == CHOOSE i \in 1..Len(files) :
                        /\ OverLimit(files, i)
                        /\ \A j \in 1..(i - 1) : ~OverLimit(files, j)
               IN  OnlyError(IF files[k].type = "image" THEN MSG_TOO_MANY_IMAGES
                             ELSE MSG_TOO_MANY_DOCUMENTS)
            /\ response[1].statusCode = 400
            /\ invoked = <<>>
        /\ Terminal =>
            ((\E i \in 1..Len(files) : OverLimit(files, i)) => BuildFailed
                \/ cause \in {"configuration", "parse", "missing_input"})

\* valid images and documents interleaved, the 21st image last: rejected
C2_Witness ==
    /\ BuildFailed
    /\ \A i \in 1..Len(files) : Valid(files[i])
    /\ NumOf(files, "image", Len(files)) = 21
    /\ NumOf(files, "document", Len(files)) = 5
    /\ files[1].type = "image"
    /\ files[Len(files)].type = "image"
    /\ OnlyError(MSG_TOO_MANY_IMAGES)

\* exactly 20 images and exactly 5 documents: built
C2_WitnessBoundary ==
    /\ BuildSucceeded
    /\ NumOf(files, "image", Len(files)) = 20
    /\ NumOf(files, "document", Len(files)) = 5

\* a 6th document before the images: rejected
C2_WitnessDocuments ==
    /\ BuildFailed
    /\ \A i \in 1..Len(files) : Valid(files[i])
    /\ NumOf(files, "document", Len(files)) = 6
    /\ files[Len(files)].type = "image"
    /\ OnlyError(MSG_TOO_MANY_DOCUMENTS)

(***************************************************************************)
(* C10: a failing build stops at the first offending attachment in input   *)
(* order and reports its error only: the attachments before it were all    *)
(* counted and validated, those after it are neither counted nor           *)
(* validated, the ceiling of an attachment is checked before it is         *)
(* validated, and no content is returned.                                  *)
(***************************************************************************)
C10_FirstOffender ==
    BuildFailed =>
        /\ \E i \in 1..Len(files) : Offending(files, i)
        /\ LET k == CHOOSE i \in 1..Len(files) :
                    /\ Offending(files, i)
                    /\ \A j \in 1..(i - 1) : ~Offending(files, j)
           IN  /\ idx = k - 1
               /\ Len(content) = (IF prompt /= "" THEN 1 ELSE 0) + (k - 1)
               /\ OnlyError(ErrorOf(files, k))
               /\ validated = (IF OverLimit(files, k) THEN k - 1 ELSE k)
               /\ OverLimit(files, k) \/ validation[1].file = files[k]
               /\ image_count = NumOf(files, "image", k)
               /\ document_count = NumOf(files, "document", k)
        /\ response[1].statusCode = 400
        /\ invoked = <<>>

\* the 21st image is invalid base64: reported as too many images
C10_Witness ==
    /\ BuildFailed
    /\ \E k \in 1..Len(files) :
        /\ NumOf(files, "image", k) = 21
        /\ files[k] = BadBase64Image
        /\ \A j \in 1..(k - 1) : Valid(files[j])
    /\ OnlyError(MSG_TOO_MANY_IMAGES)

\* an invalid attachment before the 21st image: reported with its own error
C10_WitnessEarlier ==
    /\ BuildFailed
    /\ NumOf(files, "image", Len(files)) = 21
    /\ \E k \in 1..Len(files) :
        /\ files[k] = UnsupportedDocument
        /\ NumOf(files, "image", k) = 20
    /\ OnlyError(MsgUnsupportedDocument("application/zip"))

(***************************************************************************)
(* C3: validate_file accepts an attachment if and only if its data decodes *)
(* as base64, its kind is image or document, its media type is in the      *)
(* kind's allow-list and its decoded length is at most the kind's ceiling  *)
(* (3932160 bytes for an image, 4718592 for a document); a payload one     *)
(* byte over the ceiling fails with the payload-too-large error.           *)
(***************************************************************************)
C3_ValidateFile ==
    validation /= <<>> =>
        LET f == validation[1].file
            ok == validation[1].result[1]
            msg == validation[1].result[2]
        IN  /\ ok <=> Valid(f)
            /\ ok => msg = <<>>
            /\ (/\ Decodes(f.data)
                /\ f.type = "image"
                /\ f.media_type \in ImageTypes
                /\ DecodedBytes(f.data) = 3932160 + 1) =>
                    ~ok /\ msg = MSG_IMAGE_TOO_LARGE
            /\ (/\ Decodes(f.data)
                /\ f.type = "document"
                /\ f.media_type \in DocumentTypes
                /\ DecodedBytes(f.data) = 4718592 + 1) =>
                    ~ok /\ msg = MSG_DOCUMENT_TOO_LARGE

\* a document of exactly 4.5 MiB was validated and accepted
C3_Witness ==
    /\ validation /= <<>>
    /\ validation[1].file.type = "document"
    /\ Decodes(validation[1].file.data)
    /\ DecodedBytes(validation[1].file.data) = 4718592
    /\ validation[1].result[1]

\* a document one byte over 4.5 MiB was validated and rejected
C3_WitnessOver ==
    /\ validation /= <<>>
    /\ validation[1].file.type = "document"
    /\ validation[1].file.media_type = "text/csv"
    /\ Decodes(validation[1].file.data)
    /\ DecodedBytes(validation[1].file.data) = 4718592 + 1
    /\ validation[1].result = <<FALSE, MSG_DOCUMENT_TOO_LARGE>>

\* an image of exactly 3.75 MiB was validated and accepted
C3_WitnessImage ==
    /\ validation /= <<>>
    /\ validation[1].file.type = "image"
    /\ DecodedBytes(validation[1].file.data) = 3932160
    /\ validation[1].result[1]

(***************************************************************************)
(* C4, as claimed: in every execution, if an attachment fails validation   *)
(* or a count ceiling is exceeded, the handler returns HTTP 400 with that  *)
(* error and the remote call is never made; the remote call is made at     *)
(* most once and only after the whole content was built.                   *)
(***************************************************************************)
C4_AsClaimed ==
    /\ Len(invoked) <= 1
    /\ invoked /= <<>> => BuildSucceeded
    /\ (\E i \in 1..Len(files) : Offending(files, i)) =>
        /\ invoked = <<>>
        /\ Terminal =>
            /\ response[1].statusCode = 400
            /\ \E i \in 1..Len(files) :
                Offending(files, i) /\ OnlyError(ErrorOf(files, i))

(***************************************************************************)
(* C4, amended: when the model identifier is a valid inference-profile     *)
(* reference, a request with an offending attachment is answered with HTTP *)
(* 400 and the error of the first offending attachment; when it is not,    *)
(* the request is answered with the HTTP 500 configuration error.  In both *)
(* cases the remote call is never made.  The remote call is made at most   *)
(* once and only with the content of a build that succeeded.               *)
(***************************************************************************)
C4_FailFast ==
    /\ Len(invoked) <= 1
    /\ invoked /= <<>> =>
        /\ BuildSucceeded
        /\ \A i \in 1..Len(files) : ~Offending(files, i)
        /\ Len(content) = Len(files) + 1
        /\ invoked[1].body.messages = <<[role |-> "user", content |-> content]>>
    /\ (\E i \in 1..Len(files) : Offending(files, i)) =>
        /\ invoked = <<>>
        /\ Terminal =>
            LET k == CHOOSE i \in 1..Len(files) :
                        /\ Offending(files, i)
                        /\ \A j \in 1..(i - 1) : ~Offending(files, j)
            IN  IF MODEL_ID[1] = "arn:aws"
                    /\ \E n \in 1..Len(MODEL_ID) : MODEL_ID[n] = "inference-profile"
                THEN /\ response[1].statusCode = 400
                     /\ OnlyError(ErrorOf(files, k))
                     /\ cause = "validation"
                ELSE /\ response[1].statusCode = 500
                     /\ cause = "configuration"
                     /\ validated = 0

\* a request whose third attachment is invalid base64 was answered 400
C4_Witness ==
    /\ Terminal
    /\ Len(files) >= 3
    /\ files[3] = BadBase64Image
    /\ Valid(files[1]) /\ Valid(files[2])
    /\ response[1].statusCode = 400
    /\ OnlyError(MSG_INVALID_BASE64)
    /\ invoked = <<>>

\* the remote call was made, once, after a build with attachments
C4_WitnessInvoked == Len(invoked) = 1 /\ Len(files) >= 2 /\ Terminal

(***************************************************************************)
(* C5, as claimed: when the model identifier is no valid inference-profile *)
(* reference, every request, also one with neither prompt nor files, is    *)
(* answered with the HTTP 500 configuration error, before any attachment   *)
(* is validated and before the remote service is called.                   *)
(***************************************************************************)
C5_AsClaimed ==
    (/\ ~(MODEL_ID[1] = "arn:aws"
            /\ \E n \in 1..Len(MODEL_ID) : MODEL_ID[n] = "inference-profile")
     /\ event.body.t = "json"
     /\ Terminal) =>
        /\ response[1].statusCode = 500
        /\ response[1].body.error = MSG_CONFIG
        /\ validated = 0
        /\ invoked = <<>>

(***************************************************************************)
(* C8, as claimed: every response has one of three forms, by its cause:    *)
(* 200 with {response} on success; 400 with {error} for a missing input or *)
(* an attachment failure; 500 with {error, details} for a configuration    *)
(* failure or a remote-invocation failure.  A request is rejected as       *)
(* missing input only when both prompt and files are absent or empty.      *)
(***************************************************************************)
C8_AsClaimed ==
    pc = "done" =>
        /\ cause \in {"success", "missing_input", "validation", "configuration",
                      "invocation", "parse"}
        /\ cause = "success" =>
            /\ response[1].statusCode = 200
            /\ DOMAIN response[1].body = {"response"}
        /\ cause \in {"missing_input", "validation"} =>
            /\ response[1].statusCode = 400
            /\ DOMAIN response[1].body = {"error"}
        /\ cause \in {"configuration", "invocation"} =>
            /\ response[1].statusCode = 500
            /\ DOMAIN response[1].body = {"error", "details"}
        /\ cause = "parse" => response[1].statusCode \in {400, 500}
        /\ cause = "missing_input" <=>
            /\ event.body.t = "json"
            /\ "prompt" \notin event.body.keys \/ event.body.prompt = ""
            /\ "files" \notin event.body.keys \/ event.body.files = <<>>

(***************************************************************************)
(* C8, amended: every response has one of four forms, by its cause: 200    *)
(* with {response} on success; 400 with {error} for a missing input or an  *)
(* attachment failure; 500 with {error} alone for a configuration failure; *)
(* 500 with {error, details} for a remote-invocation failure or a request  *)
(* body that is not JSON.  A request is rejected as missing input only     *)
(* when both prompt and files are absent or empty.                         *)
(***************************************************************************)
C8_ResponseForms ==
    pc = "done" =>
        /\ Len(response) = 1
        /\ cause \in {"success", "missing_input", "validation", "configuration",
                      "invocation", "parse"}
        /\ cause = "success" =>
            /\ response[1].statusCode = 200
            /\ DOMAIN response[1].body = {"response"}
        /\ cause \in {"missing_input", "validation"} =>
            /\ response[1].statusCode = 400
            /\ DOMAIN response[1].body = {"error"}
        /\ cause = "configuration" =>
            /\ response[1].statusCode = 500
            /\ DOMAIN response[1].body = {"error"}
        /\ cause \in {"invocation", "parse"} =>
            /\ response[1].statusCode = 500
            /\ DOMAIN response[1].body = {"error", "details"}
        /\ cause = "missing_input" <=>
            /\ event.body.t = "json"
            /\ "prompt" \notin event.body.keys \/ event.body.prompt = ""
            /\ "files" \notin event.body.keys \/ event.body.files = <<>>

\* a request with attachments and no prompt met a configuration failure
C8_Witness ==
    /\ pc = "done"
    /\ cause = "configuration"
    /\ event.body.prompt = ""
    /\ Len(event.body.files) > 0
    /\ response[1] = [statusCode |-> 500, body |-> [error |-> MSG_CONFIG]]

\* a request with a prompt and an empty list of files went through
C8_WitnessPromptOnly ==
    /\ pc = "done"
    /\ cause = "success"
    /\ event.body.prompt = "hello"
    /\ event.body.files = <<>>

(***************************************************************************)
(* Vocabulary of the properties of the response normaliser                 *)
(***************************************************************************)
\* lines 224-244 have run
Extracted ==
    \/ pc \in {"return", "raised"}
    \/ pc = "done" /\ cause = "success"

\* what lines 224-244 came to: the extracted value, or RAISE
Outcome == IF pc = "raised" THEN RAISE ELSE assistantContent

\* the field of the response, ABSENT when the response has none of that name
Field(name) ==
    IF result.t = "dict" /\ name \in DOMAIN result.v THEN result.v[name] ELSE ABSENT

Shapes == <<"messages", "completions", "completion", "modelOutputs", "content">>

\* the first shape, in the order of Shapes, that is one of names; else "none"
FirstShape(names) ==
    IF \E i \in 1..Len(Shapes) : Shapes[i] \in names
    THEN Shapes[CHOOSE i \in 1..Len(Shapes) :
                    Shapes[i] \in names /\ \A j \in 1..(i - 1) : Shapes[j] \notin names]
    ELSE "none"

\* the field is there and Python takes its value for true
Filled(name) == truthy(Field(name))

\* the field is there, and it is not empty if it is one of the sequences
PresentAsClaimed(name) ==
    IF name = "completion" THEN Field(name).t /= "absent" ELSE Filled(name)

FilledShapes == {name \in {Shapes[i] : i \in 1..Len(Shapes)} : Filled(name)}

ShapesPresentAsClaimed ==
    {name \in {Shapes[i] : i \in 1..Len(Shapes)} : PresentAsClaimed(name)}

\* the response reduced to one of its fields
Only(name) == JDict([k \in {name} |-> Field(name)])

FirstCompletion == first(Field("completions"))

MessageContent == get(get(FirstCompletion, "message", EmptyDict), "content", ABSENT)

DataContent == get(get(FirstCompletion, "data", EmptyDict), "content", JNull)

(***************************************************************************)
(* C6, as claimed: the shapes are probed in the order messages,            *)
(* completions, completion, modelOutputs, content, stopping at the first   *)
(* that is present (and non-empty for the sequences); the result comes     *)
(* from that shape only, data.content being used only if message.content   *)
(* is absent.                                                              *)
(***************************************************************************)
C6_AsClaimed ==
    (Extracted /\ result.t = "dict") =>
        /\ shape = FirstShape(ShapesPresentAsClaimed)
        /\ Outcome = extract_text(Only(shape))
        /\ (shape = "completions" /\ ~raised(Outcome)) =>
            Outcome = (IF MessageContent.t /= "absent" THEN MessageContent
                       ELSE DataContent)

(***************************************************************************)
(* C6, amended: the shapes are probed in the order messages, completions,  *)
(* completion, modelOutputs, content, stopping at the first whose value is *)
(* there and true for Python (not null, false, 0, empty string, empty list *)
(* or empty object): an empty completion string is passed over like an     *)
(* empty list.  What the extraction comes to (a value or an exception) is  *)
(* determined by that shape alone: the last element of messages; the first *)
(* completion's message.content, or data.content if message.content is     *)
(* absent or not true for Python; completion itself; the first             *)
(* modelOutputs element's content.  When no shape matches the result is    *)
(* null.                                                                   *)
(***************************************************************************)
C6_ProbeOrder ==
    (Extracted /\ result.t = "dict") =>
        /\ shape = FirstShape(FilledShapes)
        /\ shape = "none" => Outcome = JNull
        /\ shape /= "none" => Outcome = extract_text(Only(shape))
        /\ (shape = "messages" /\ ~raised(Outcome)) =>
            Outcome = get(last(Field("messages")), "content", JNull)
        /\ (shape = "completions" /\ ~raised(Outcome)) =>
            Outcome = (IF truthy(MessageContent) THEN MessageContent ELSE DataContent)
        /\ shape = "completion" => Outcome = Field("completion")
        /\ (shape = "modelOutputs" /\ ~raised(Outcome)) =>
            Outcome = get(first(Field("modelOutputs")), "content", JNull)

\* messages is there but empty, completions and content are filled: the
\* text came from completions
C6_Witness ==
    /\ Extracted
    /\ Field("messages") = JList(<<>>)
    /\ Filled("completions") /\ Filled("completion") /\ Filled("content")
    /\ shape = "completions"
    /\ assistantContent = S("c")

\* the completion is the empty string and the text came from content
C6_WitnessEmptyCompletion ==
    /\ Extracted
    /\ Field("completion") = JStr(<<>>)
    /\ shape = "content"
    /\ assistantContent = S("t")

\* message.content is the empty string and the text came from data.content
C6_WitnessFallback ==
    /\ Extracted
    /\ shape = "completions"
    /\ MessageContent = JStr(<<>>)
    /\ assistantContent = S("d")

(***************************************************************************)
(* C7, as claimed: when the content shape matches, the extracted text is   *)
(* the text fields, in order and joined by one space, of every item of     *)
(* type "text" and of every other item with a non-empty text field; when   *)
(* no item contributes any text the result is null, never an empty string  *)
(* and never an error.                                                     *)
(***************************************************************************)
IsTextItem(item) ==
    item.t = "dict" /\ equals_str(get(item, "type", JNull), TEXT)

\* the text the item has to give, <<>> when it has none
TextOf(item) ==
    IF item.t = "dict" /\ get(item, "text", JNull).t = "str"
        /\ (IsTextItem(item) \/ Len(get(item, "text", JNull).v) > 0)
    THEN <<get(item, "text", JNull).v>>
    ELSE <<>>

RECURSIVE TextsOf(_)
TextsOf(items) ==
    IF Len(items) = 0 THEN <<>> ELSE TextOf(Head(items)) \o TextsOf(Tail(items))

RECURSIVE Spaced(_)
Spaced(texts) ==
    IF Len(texts) = 1 THEN Head(texts)
    ELSE Head(texts) \o <<" ">> \o Spaced(Tail(texts))

C7_AsClaimed ==
    (Extracted /\ shape = "content" /\ Field("content").t = "list") =>
        /\ pc /= "raised"
        /\ assistantContent /= JStr(<<>>)
        /\ assistantContent =
            (IF \A i \in 1..Len(TextsOf(Field("content").v)) :
                    TextsOf(Field("content").v)[i] = <<>>
             THEN JNull
             ELSE JStr(Spaced(TextsOf(Field("content").v))))

(***************************************************************************)
(* C9, as claimed: once the remote call has returned, the handler always   *)
(* ends with HTTP 200 and {response: r}, r a string or null, for every     *)
(* JSON response: no exception escapes, and a response of no known shape   *)
(* gives r = null.                                                         *)
(***************************************************************************)
C9_AsClaimed ==
    /\ result.t = "dict" => pc /= "raised"
    /\ Extracted =>
        /\ assistantContent.t \in {"str", "null"}
        /\ FirstShape(FilledShapes) = "none" => assistantContent = JNull
    /\ (pc = "done" /\ cause = "success") =>
        /\ response[1].statusCode = 200
        /\ DOMAIN response[1].body = {"response"}
        /\ response[1].body.response.t \in {"str", "null"}

====
